---- MODULE Spec2Model ----
(***************************************************************************)
(* Model of the star-disc pipeline of caelum-noctis:                       *)
(*   StarCatalog._load_catalog      (src/src/disks/Star.py)                *)
(*   SkyMap.calculate_positions     (src/src/disks/SkyMap.py)              *)
(*   StarDiscGenerator.*            (src/src/disks/StarDiscGenerator.py)   *)
(*                                                                         *)
(* Conventions.                                                            *)
(*  - Star objects live in the heap sequence `stars` (the values of the    *)
(*    catalog dict, in insertion order).  Python lists of Star objects are *)
(*    sequences of references (indexes into `stars`), so that a write      *)
(*    through a list element is a write to the catalog's own object.       *)
(*  - Magnitudes are integers counting tenths (0.5 is 5, -26.7 is -267).   *)
(*  - Lengths on the canvas are in points (reportlab's inch is 72);        *)
(*    lengths that are not whole points are rationals [n, d].              *)
(*  - Right ascension is restricted to the quarter turns 0, 6, 12, 18 h,   *)
(*    where cos and sin are exact, declination to multiples of 45 degrees. *)
(*  - Horizon coordinates written by calculate_positions are in            *)
(*    thousandths of a radian.                                             *)
(*  - print() calls are not modelled (they change no program state).       *)
(***************************************************************************)
EXTENDS Integers, Sequences, FiniteSets, TLC

VARIABLES
    csv,            \* the catalog file: the rows csv.DictReader yields
    rowI,           \* _load_catalog: index of the next row to read
    stars,          \* StarCatalog.stars: the Star objects, in dict order
    skyStars,       \* SkyMap.stars: list of references
    conIds,         \* calculate_positions: constellation_star_ids
    skyI,           \* calculate_positions: index of the next star
    ephemLog,       \* what the ephemeris answered for self.stars[1..], in order
    visible,        \* calculate_positions: visible_stars (references)
    sorted,         \* create_disc_template: sorted_stars (references)
    brightest,      \* create_disc_template: brightest_stars (set of names)
    positions,      \* create_disc_template: star_positions (hip -> <<x, y>>)
    drawI,          \* create_disc_template: index of the next star
    conI,           \* _draw_constellation_lines: index of the next constellation
    canvas,         \* the canvas: the calls made on it, in order
    saved,          \* whether c.save() has run
    query,          \* the list returned by the last catalog query
    pc              \* position in the pipeline

vars == <<csv, rowI, stars, skyStars, conIds, skyI, ephemLog, visible, sorted, brightest,
          positions, drawI, conI, canvas, saved, query, pc>>

----------------------------------------------------------------------------
(* Bounds of the model.                                                    *)

MaxRows == 3

----------------------------------------------------------------------------
(* Rational numbers [n, d], d > 0, in lowest terms.                        *)

Abs(a) == IF a < 0 THEN -a ELSE a

RECURSIVE Gcd(_, _)
Gcd(a, b) == IF b = 0 THEN a ELSE Gcd(b, a % b)

Q(n, d) ==
    LET g == Gcd(Abs(n), Abs(d))
        s == IF d < 0 THEN -1 ELSE 1
    IN  [n |-> (s * n) \div g, d |-> (s * d) \div g]

QInt(a) == [n |-> a, d |-> 1]
QSub(a, b) == Q(a.n * b.d - b.n * a.d, a.d * b.d)
QLt(a, b) == a.n * b.d < b.n * a.d
QLe(a, b) == a.n * b.d <= b.n * a.d
QMin(a, b) == IF QLe(a, b) THEN a ELSE b

----------------------------------------------------------------------------
(* Python values.                                                          *)

None == -1          \* None, for Optional[int] fields (hip); no real id is negative
NoName == "<None>"  \* None, for Optional[str] fields (common_name)
Empty == -1         \* an empty CSV column that holds an integer otherwise
BadFloat == -100000 \* a column float() rejects with ValueError

\* An f-string's rendering of a CSV column: the column's text.
Fmt(col) == IF col = Empty THEN "" ELSE ToString(col)

----------------------------------------------------------------------------
(* The catalog file.  A row has the columns _load_catalog reads.           *)

Row(id, proper, hip, hd, mag, ra, dec, con) ==
    [id |-> id, proper |-> proper, hip |-> hip, hd |-> hd,
     mag |-> mag, ra |-> ra, dec |-> dec, con |-> con]

RowPool ==
    { Row(1, "Betelgeuse", 26727, 39801, 5, 12, 0, "Ori"),
      Row(2, "", 26311, 37128, 16, 0, 0, "Ori"),
      Row(3, "Sol", Empty, Empty, -267, 0, 90, ""),
      Row(4, "", 99999, 48915, -20, 6, 45, "CMa"),
      Row(2, "Mintaka", 25930, 36486, 22, 18, 45, "ori"),
      Row(6, "Faint", 11111, 22222, 50, 0, 0, "Ori"),
      Row(7, "Broken", 33333, 44444, BadFloat, 0, 0, "Ori") }

RECURSIVE SeqsUpTo(_, _)
SeqsUpTo(S, n) ==
    IF n = 0 THEN {<<>>}
    ELSE LET shorter == SeqsUpTo(S, n - 1)
         IN  shorter \cup {Append(s, e) : s \in {t \in shorter : Len(t) = n - 1}, e \in S}

----------------------------------------------------------------------------
(* StarCatalog                                                             *)

bright_star_threshold == 45

\* The name expression of _load_catalog.  Python parses
\*   A or B if C else D   as   (A or B) if C else D.
StarName(row) ==
    IF row.hip # Empty
    THEN (IF row.proper # "" THEN row.proper ELSE "HIP " \o Fmt(row.hip))
    ELSE "HD " \o Fmt(row.hd)

StarOfRow(row) ==
    [id |-> row.id,
     name |-> StarName(row),
     magnitude |-> row.mag,
     ra |-> row.ra,
     dec |-> row.dec,
     x |-> 0,
     y |-> 0,
     constellation |-> row.con,
     common_name |-> IF row.proper # "" THEN row.proper ELSE NoName,
     hip |-> IF row.hip # Empty THEN row.hip ELSE None]

\* self.stars[star.id] = star on an insertion-ordered dict.
DictPut(d, star) ==
    IF \E i \in 1..Len(d) : d[i].id = star.id
    THEN [i \in 1..Len(d) |-> IF d[i].id = star.id THEN star ELSE d[i]]
    ELSE Append(d, star)

\* One iteration of the row loop of _load_catalog.
LoadRow ==
    /\ pc = "load"
    /\ rowI <= Len(csv)
    /\ LET row == csv[rowI]
       IN  stars' = IF row.mag = BadFloat THEN stars            \* ValueError: continue
                    ELSE IF row.mag <= bright_star_threshold
                         THEN DictPut(stars, StarOfRow(row))
                         ELSE stars
    /\ rowI' = rowI + 1
    /\ UNCHANGED <<csv, skyStars, conIds, skyI, ephemLog, visible, sorted, brightest,
                   positions, drawI, conI, canvas, saved, query, pc>>

\* StarCatalog.get_visible_stars(magnitude_limit): references, in dict order.
GetVisibleStars(limit) ==
    SelectSeq([i \in 1..Len(stars) |-> i], LAMBDA r : stars[r].magnitude <= limit)

\* str.upper() on the constellation abbreviations that occur.
Upper(s) ==
    CASE s = "Ori" -> "ORI"
      [] s = "ori" -> "ORI"
      [] s = "ORI" -> "ORI"
      [] s = "CMa" -> "CMA"
      [] s = "CMA" -> "CMA"
      [] s = "UMa" -> "UMA"
      [] s = "UMA" -> "UMA"
      [] OTHER -> s

\* StarCatalog.get_constellation_stars(constellation)
GetConstellationStars(constellation) ==
    SelectSeq([i \in 1..Len(stars) |-> i],
              LAMBDA r : /\ stars[r].constellation # ""
                         /\ Upper(stars[r].constellation) = Upper(constellation))

\* StarCatalog.get_named_stars()
GetNamedStars ==
    SelectSeq([i \in 1..Len(stars) |-> i], LAMBDA r : stars[r].common_name # NoName)

----------------------------------------------------------------------------
(* ConstellationLines.MAJOR_CONSTELLATIONS, in dict order.                 *)

MAJOR_CONSTELLATIONS ==
    << [name |-> "Orion",
        lines |-> << <<26727, 26311>>, <<26311, 25930>>, <<25930, 26727>>,
                     <<26727, 27366>>, <<27366, 27989>>, <<27989, 29426>>,
                     <<29426, 25930>> >>],
       [name |-> "Taurus",
        lines |-> << <<25428, 26451>>, <<26451, 27913>>, <<27913, 28380>>,
                     <<28380, 29434>>, <<29434, 32349>>, <<32349, 31681>> >>],
       [name |-> "Gemini",
        lines |-> << <<31637, 30343>>, <<30343, 29655>>, <<29655, 28910>>,
                     <<28910, 28734>>, <<28734, 27673>> >>],
       [name |-> "Auriga",
        lines |-> << <<24608, 28380>>, <<28380, 28360>>, <<28360, 25428>>,
                     <<25428, 24608>> >>],
       [name |-> "Canis Major",
        lines |-> << <<32349, 33165>>, <<33165, 34444>>, <<34444, 33579>>,
                     <<33579, 32349>> >>],
       [name |-> "Ursa Major",
        lines |-> << <<54061, 53910>>, <<53910, 58001>>, <<58001, 59774>>,
                     <<59774, 65378>>, <<65378, 67301>>, <<67301, 68127>> >>],
       [name |-> "Perseus",
        lines |-> << <<15863, 14576>>, <<15863, 13654>>, <<13654, 13268>>,
                     <<13268, 14576>> >>],
       [name |-> "Cancer",
        lines |-> << <<44066, 42911>>, <<42911, 42806>>, <<42806, 41909>> >>] >>

----------------------------------------------------------------------------
(* SkyMap                                                                  *)

\* SkyMap.__init__ once the catalog is loaded: self.stars = _load_bright_stars()
LoadBrightStars ==
    /\ pc = "load"
    /\ rowI > Len(csv)
    /\ skyStars' = GetVisibleStars(100)
    /\ pc' = "resolve"
    /\ UNCHANGED <<csv, rowI, stars, conIds, skyI, ephemLog, visible, sorted, brightest,
                   positions, drawI, conI, canvas, saved, query>>

\* flat_star_ids of one constellation
FlatStarIds(c) ==
    UNION { {MAJOR_CONSTELLATIONS[c].lines[e][1], MAJOR_CONSTELLATIONS[c].lines[e][2]} :
            e \in 1..Len(MAJOR_CONSTELLATIONS[c].lines) }

\* Every secondary identifier that some pair of the edge table names.
EdgeIds == UNION { FlatStarIds(c) : c \in 1..Len(MAJOR_CONSTELLATIONS) }

\* constellation_star_ids: for each constellation in turn, the hips of the
\* stars of self.stars that one of its pairs names.
RECURSIVE ConstellationStarIds(_)
ConstellationStarIds(c) ==
    IF c = 0 THEN <<>>
    ELSE ConstellationStarIds(c - 1) \o
         [k \in 1..Len(SelectSeq(skyStars, LAMBDA r : stars[r].hip # None
                                                     /\ stars[r].hip \in FlatStarIds(c)))
            |-> stars[SelectSeq(skyStars, LAMBDA r : stars[r].hip # None
                                                     /\ stars[r].hip \in FlatStarIds(c))[k]].hip]

\* calculate_positions up to its star loop.
ResolveConstellationStars ==
    /\ pc = "resolve"
    /\ conIds' = ConstellationStarIds(Len(MAJOR_CONSTELLATIONS))
    /\ skyI' = 1
    /\ visible' = <<>>
    /\ pc' = "sky"
    /\ UNCHANGED <<csv, rowI, stars, skyStars, ephemLog, sorted, brightest,
                   positions, drawI, conI, canvas, saved, query>>

\* What the ephemeris can answer for one star: it raises, or gives
\* (alt, az) in radians.
Altitudes == {0, 1}
Azimuths == {2}
EphemerisError == [ok |-> FALSE, alt |-> 0, az |-> 0]
EphemerisOutcomes ==
    {EphemerisError} \cup {[ok |-> TRUE, alt |-> a, az |-> z] : a \in Altitudes, z \in Azimuths}

\* 1000 * cos(alt) for the altitudes above.
CosMilli(alt) == IF alt = 0 THEN 1000 ELSE 540

InRefs(x, ids) == \E k \in 1..Len(ids) : ids[k] = x

\* The inclusion test of calculate_positions.
IncludedWrong(alt, hip) == alt >= 0 \/ InRefs(hip, conIds)
Included(alt, hip) == alt > 0 \/ InRefs(hip, conIds)

\* star.x = x; star.y = y, through the reference r
WritePositionWrong(heap, r, x, y) == [heap EXCEPT ![r].ra = x, ![r].dec = y]
WritePosition(heap, r, x, y) == [heap EXCEPT ![r].x = x, ![r].y = y]

\* One iteration of the star loop of calculate_positions.  An exception of
\* fixed_body.compute is caught nowhere: it ends the run.
ProjectStar ==
    /\ pc = "sky"
    /\ skyI <= Len(skyStars)
    /\ \E e \in EphemerisOutcomes :
         LET r == skyStars[skyI]
         IN  /\ ephemLog' = Append(ephemLog, e)
             /\ IF ~e.ok
                THEN /\ pc' = "sky_raised"
                     /\ UNCHANGED <<stars, visible, skyI>>
                ELSE /\ IF Included(e.alt, stars[r].hip)
                        THEN /\ stars' = WritePosition(stars, r, e.az * CosMilli(e.alt),
                                                       1000 * e.alt)
                             /\ visible' = Append(visible, r)
                        ELSE UNCHANGED <<stars, visible>>
                     /\ skyI' = skyI + 1
                     /\ pc' = pc
    /\ UNCHANGED <<csv, rowI, skyStars, conIds, sorted, brightest,
                   positions, drawI, conI, canvas, saved, query>>

\* return visible_stars; generate_star_disc hands it to create_disc_template.
ReturnPositions ==
    /\ pc = "sky"
    /\ skyI > Len(skyStars)
    /\ pc' = "outline"
    /\ UNCHANGED <<csv, rowI, stars, skyStars, conIds, skyI, ephemLog, visible, sorted, brightest,
                   positions, drawI, conI, canvas, saved, query>>

----------------------------------------------------------------------------
(* StarDiscGenerator, as generate_star_disc constructs it (the defaults).  *)

inch == 72
diameter == 8 * inch
radius == diameter \div 2
center_hole == Q(5 * inch * 10, 254)        \* center_hole_mm / 25.4 * inch
margin == 1 * inch
page_width == diameter + (2 * margin)
page_height == diameter + (2 * margin)
center_x == page_width \div 2
center_y == page_height \div 2

\* Calls on the canvas.  Lines and circle centres are whole points here;
\* radii and text positions are rationals.
OpLine(x1, y1, x2, y2) == [op |-> "line", x1 |-> x1, y1 |-> y1, x2 |-> x2, y2 |-> y2]
OpCircle(x, y, r, stroke, fill) ==
    [op |-> "circle", x |-> x, y |-> y, r |-> r, stroke |-> stroke, fill |-> fill]
OpString(x, y, text) == [op |-> "drawString", x |-> x, y |-> y, text |-> text]
OpSet(what, arg) == [op |-> what, arg |-> arg]

\* _draw_disc_outline, on the canvas create_disc_template has just made
DrawDiscOutline ==
    /\ pc = "outline"
    /\ canvas' = canvas \o
         << OpSet("setStrokeColorRGB", <<0, 0, 0>>),
            OpSet("setDash", <<5, 5>>),
            OpCircle(center_x, center_y, QInt(radius), 1, 0),
            OpSet("setDash", <<>>),
            OpLine(center_x - radius, center_y, center_x + radius, center_y),
            OpLine(center_x, center_y - radius, center_x, center_y + radius) >>
    /\ pc' = "hole"
    /\ UNCHANGED <<csv, rowI, stars, skyStars, conIds, skyI, ephemLog, visible, sorted, brightest,
                   positions, drawI, conI, saved, query>>

\* _draw_center_hole
DrawCenterHole ==
    /\ pc = "hole"
    /\ canvas' = canvas \o
         << OpSet("setDash", <<>>),
            OpCircle(center_x, center_y, Q(center_hole.n, center_hole.d * 2), 1, 0) >>
    /\ pc' = "marks"
    /\ UNCHANGED <<csv, rowI, stars, skyStars, conIds, skyI, ephemLog, visible, sorted, brightest,
                   positions, drawI, conI, saved, query>>

\* _draw_alignment_marks
DrawAlignmentMarks ==
    /\ pc = "marks"
    /\ canvas' = canvas \o
         << OpLine(center_x, center_y + radius - inch \div 4, center_x, center_y + radius),
            OpString(QSub(QInt(center_x), Q(inch, 10)),
                     QSub(QInt(center_y + radius), Q(2 * inch, 10)), "N") >>
    /\ pc' = "sort"
    /\ UNCHANGED <<csv, rowI, stars, skyStars, conIds, skyI, ephemLog, visible, sorted, brightest,
                   positions, drawI, conI, saved, query>>

\* sorted(stars, key=lambda s: s.magnitude): stable, ascending.
RECURSIVE InsertByMagnitude(_, _)
InsertByMagnitude(s, r) ==
    IF s = <<>> THEN <<r>>
    ELSE IF stars[s[Len(s)]].magnitude <= stars[r].magnitude
         THEN Append(s, r)
         ELSE Append(InsertByMagnitude(SubSeq(s, 1, Len(s) - 1), r), s[Len(s)])

RECURSIVE SortedByMagnitude(_)
SortedByMagnitude(s) ==
    IF s = <<>> THEN <<>>
    ELSE InsertByMagnitude(SortedByMagnitude(SubSeq(s, 1, Len(s) - 1)), s[Len(s)])

\* How many stars are labelled: sorted_stars[:10]
LabelCount == 10

Min(a, b) == IF a <= b THEN a ELSE b

\* brightest_stars = set(star.name for star in sorted_stars[:10])
BrightestNames(s) == { stars[s[k]].name : k \in 1..Min(LabelCount, Len(s)) }

\* The list generate_star_disc hands to create_disc_template: the one
\* calculate_positions returned.
DiscInputWrong == skyStars
DiscInput == visible

\* Lines 39-42 of create_disc_template.
SortStars ==
    /\ pc = "sort"
    /\ sorted' = SortedByMagnitude(DiscInput)
    /\ brightest' = BrightestNames(SortedByMagnitude(DiscInput))
    /\ positions' = <<>>
    /\ drawI' = 1
    /\ pc' = "stars"
    /\ UNCHANGED <<csv, rowI, stars, skyStars, conIds, skyI, ephemLog, visible,
                   conI, canvas, saved, query>>

\* cos and sin of (ra / 24) * 2 * pi at the quarter turns.
CosTurn(ra) == CASE ra = 0 -> 1 [] ra = 6 -> 0 [] ra = 12 -> -1 [] ra = 18 -> 0
SinTurn(ra) == CASE ra = 0 -> 0 [] ra = 6 -> 1 [] ra = 12 -> 0 [] ra = 18 -> -1

\* The polar mapping of create_disc_template (declination a multiple of 45).
DiscR(star) == (radius * (90 - star.dec)) \div 90
DiscX(star) == center_x + DiscR(star) * CosTurn(star.ra)
DiscY(star) == center_y + DiscR(star) * SinTurn(star.ra)

\* _magnitude_to_size; magnitude in tenths.  magnitude + 2 = 0 raises
\* ZeroDivisionError.
base_size == 2
MagnitudeRaises(magnitude) == magnitude + 20 = 0
MaxSize == Q(inch, 10)
MagnitudeToSize(magnitude) ==
    QMin(Q(base_size * 10 * inch * 10, (magnitude + 20) * 254), MaxSize)

\* The bounds test of _draw_star.
InBounds(x, y) == 0 <= x /\ x <= diameter /\ 0 <= y /\ y <= diameter

\* draw_name as create_disc_template passes it: star.hip or None.
DrawName(star) == IF star.name \in brightest THEN star.hip ELSE None

\* Python truth of an Optional[int].
Truthy(v) == v # None /\ v # 0

\* _draw_star: the calls it makes on the canvas.
DrawStar(x, y, size, name, draw_name) ==
    IF InBounds(x, y)
    THEN << OpSet("setFillColorRGB", <<0, 0, 0>>),
            OpCircle(x, y, size, 0, 1) >> \o
         (IF Truthy(draw_name) /\ name # ""
          THEN << OpSet("setFont", <<"Helvetica", 6>>),
                  OpString(QInt(x - Len(name) * 2), QSub(QSub(QInt(y), size), QInt(8)), name) >>
          ELSE <<>>)
    ELSE <<>>

\* star_positions[star.hip] = (x, y)
PutPosition(table, hip, x, y) ==
    [h \in DOMAIN table \cup {hip} |-> IF h = hip THEN <<x, y>> ELSE table[h]]

\* One iteration of the star loop of create_disc_template.
DrawStarStep ==
    /\ pc = "stars"
    /\ drawI <= Len(sorted)
    /\ LET star == stars[sorted[drawI]]
           x == DiscX(star)
           y == DiscY(star)
       IN  /\ positions' = PutPosition(positions, star.hip, x, y)
           /\ IF MagnitudeRaises(star.magnitude)
              THEN /\ pc' = "draw_raised"
                   /\ UNCHANGED <<canvas, drawI>>
              ELSE /\ canvas' = canvas \o
                         DrawStar(x, y, MagnitudeToSize(star.magnitude), star.name,
                                  DrawName(star))
                   /\ drawI' = drawI + 1
                   /\ pc' = pc
    /\ UNCHANGED <<csv, rowI, stars, skyStars, conIds, skyI, ephemLog, visible, sorted, brightest,
                   conI, saved, query>>

\* _draw_constellation_lines up to its loop.
BeginConstellationLinesEarly ==
    /\ pc = "stars"
    /\ canvas' = canvas \o
         << OpSet("setStrokeColorRGB", <<Q(7, 10), Q(7, 10), Q(7, 10)>>),
            OpSet("setLineWidth", <<Q(1, 2)>>) >>
    /\ conI' = 1
    /\ pc' = "lines"
    /\ UNCHANGED <<csv, rowI, stars, skyStars, conIds, skyI, ephemLog, visible, sorted,
                   brightest, positions, drawI, saved, query>>

BeginConstellationLines ==
    /\ pc = "stars"
    /\ drawI > Len(sorted)
    /\ canvas' = canvas \o
         << OpSet("setStrokeColorRGB", <<Q(7, 10), Q(7, 10), Q(7, 10)>>),
            OpSet("setLineWidth", <<Q(1, 2)>>) >>
    /\ conI' = 1
    /\ pc' = "lines"
    /\ UNCHANGED <<csv, rowI, stars, skyStars, conIds, skyI, ephemLog, visible, sorted, brightest,
                   positions, drawI, saved, query>>

\* The lines drawn for the pairs lines[1..n] against a position table.
RECURSIVE EdgeLinesSwapped(_, _, _)
EdgeLinesSwapped(lines, n, table) ==
    IF n = 0 THEN <<>>
    ELSE EdgeLinesSwapped(lines, n - 1, table) \o
         (IF lines[n][1] \in DOMAIN table /\ lines[n][2] \in DOMAIN table
          THEN << OpLine(table[lines[n][2]][1], table[lines[n][2]][2],
                         table[lines[n][1]][1], table[lines[n][1]][2]) >>
          ELSE <<>>)

RECURSIVE EdgeLines(_, _, _)
EdgeLines(lines, n, table) ==
    IF n = 0 THEN <<>>
    ELSE EdgeLines(lines, n - 1, table) \o
         (IF lines[n][1] \in DOMAIN table /\ lines[n][2] \in DOMAIN table
          THEN << OpLine(table[lines[n][1]][1], table[lines[n][1]][2],
                         table[lines[n][2]][1], table[lines[n][2]][2]) >>
          ELSE <<>>)

\* One iteration of the outer loop of _draw_constellation_lines.
DrawConstellation ==
    /\ pc = "lines"
    /\ conI <= Len(MAJOR_CONSTELLATIONS)
    /\ canvas' = canvas \o
         EdgeLines(MAJOR_CONSTELLATIONS[conI].lines,
                   Len(MAJOR_CONSTELLATIONS[conI].lines), positions)
    /\ conI' = conI + 1
    /\ UNCHANGED <<csv, rowI, stars, skyStars, conIds, skyI, ephemLog, visible, sorted, brightest,
                   positions, drawI, saved, query, pc>>

\* c.save(), and generate_star_disc returns.
Save ==
    /\ pc = "lines"
    /\ conI > Len(MAJOR_CONSTELLATIONS)
    /\ saved' = TRUE
    /\ pc' = "done"
    /\ UNCHANGED <<csv, rowI, stars, skyStars, conIds, skyI, ephemLog, visible, sorted, brightest,
                   positions, drawI, conI, canvas, query>>

\* A caller queries the catalog after the run.
Constellations == {"Ori", "CMa", "UMa"}

QueryCatalog ==
    /\ pc = "done"
    /\ \/ query' = GetVisibleStars(bright_star_threshold)
       \/ \E c \in Constellations : query' = GetConstellationStars(c)
       \/ query' = GetNamedStars
    /\ UNCHANGED <<csv, rowI, stars, skyStars, conIds, skyI, ephemLog, visible, sorted, brightest,
                   positions, drawI, conI, canvas, saved, pc>>

Init ==
    /\ csv \in SeqsUpTo(RowPool, MaxRows)
    /\ rowI = 1
    /\ stars = <<>>
    /\ skyStars = <<>>
    /\ conIds = <<>>
    /\ skyI = 1
    /\ ephemLog = <<>>
    /\ visible = <<>>
    /\ sorted = <<>>
    /\ brightest = {}
    /\ positions = <<>>
    /\ drawI = 1
    /\ conI = 1
    /\ canvas = <<>>
    /\ saved = FALSE
    /\ query = <<>>
    /\ pc = "load"

Next ==
    \/ LoadRow
    \/ LoadBrightStars
    \/ ResolveConstellationStars
    \/ ProjectStar
    \/ ReturnPositions
    \/ DrawDiscOutline
    \/ DrawCenterHole
    \/ DrawAlignmentMarks
    \/ SortStars
    \/ DrawStarStep
    \/ BeginConstellationLines
    \/ DrawConstellation
    \/ Save
    \/ QueryCatalog

Spec == Init /\ [][Next]_vars
----------------------------------------------------------------------------
(* Properties.                                                             *)

Range(s) == { s[k] : k \in 1..Len(s) }

\* calculate_positions has returned its list.
PositionsReturned ==
    pc \in {"outline", "hole", "marks", "sort", "stars", "lines", "done", "draw_raised"}

\* The star loop of create_disc_template has run to its end.
StarsDrawn == pc \in {"lines", "done"}

\* Index of the setLineWidth call that opens edge resolution (0: not begun).
EdgeStart ==
    IF \E i \in 1..Len(canvas) : canvas[i].op = "setLineWidth"
    THEN CHOOSE i \in 1..Len(canvas) : canvas[i].op = "setLineWidth"
    ELSE 0

\* The calls made on the canvas during edge resolution.
EdgeOps == IF EdgeStart = 0 THEN <<>> ELSE SubSeq(canvas, EdgeStart + 1, Len(canvas))

\* The pairs of the constellations the edge loop has finished.
PairsDone ==
    { p \in (1..Len(MAJOR_CONSTELLATIONS)) \X (1..7) :
        p[1] < conI /\ p[2] <= Len(MAJOR_CONSTELLATIONS[p[1]].lines) }

PairOf(p) == MAJOR_CONSTELLATIONS[p[1]].lines[p[2]]

BothRecorded(p) == PairOf(p)[1] \in DOMAIN positions /\ PairOf(p)[2] \in DOMAIN positions

\* C1: during and after edge resolution, every pair of a finished
\* constellation whose two identifiers are keys of the position table has a
\* line from the first endpoint's recorded point to the second's, and there
\* are exactly as many lines as such pairs: a pair with a missing endpoint
\* draws nothing, and the run goes on.
C1_EdgeDrawnIffBothRecorded ==
    StarsDrawn =>
        LET ops == EdgeOps
            done == PairsDone
        IN  /\ \A p \in done :
                 BothRecorded(p) =>
                    \E k \in 1..Len(ops) :
                        ops[k] = OpLine(positions[PairOf(p)[1]][1], positions[PairOf(p)[1]][2],
                                        positions[PairOf(p)[2]][1], positions[PairOf(p)[2]][2])
            /\ Len(ops) = Cardinality({p \in done : BothRecorded(p)})
            /\ \A k \in 1..Len(ops) : ops[k].op = "line"

\* A finished run that drew a line for one pair and skipped another pair
\* one of whose endpoints is recorded and the other is not.
C1_Witness ==
    /\ pc = "done"
    /\ \E p \in PairsDone : BothRecorded(p)
    /\ \E p \in PairsDone : PairOf(p)[1] \in DOMAIN positions /\ PairOf(p)[2] \notin DOMAIN positions

\* The stars among self.stars[1..n] that the inclusion rule keeps, in order.
RECURSIVE ExpectedVisible(_)
ExpectedVisible(n) ==
    IF n = 0 THEN <<>>
    ELSE ExpectedVisible(n - 1) \o
         (IF ephemLog[n].alt > 0 \/ stars[skyStars[n]].hip \in EdgeIds
          THEN <<skyStars[n]>> ELSE <<>>)

LabelRequested == { r \in Range(sorted) : Truthy(DrawName(stars[r])) /\ stars[r].name # "" }

\* C3: once the stars are drawn, the stars a label is requested for are
\* exactly the 10 lowest-magnitude stars of the input (all of them when it has
\* fewer), ties in catalog order.
C3_LabelledAreTenBrightest ==
    StarsDrawn =>
        /\ Cardinality(LabelRequested) <= 10
        /\ LabelRequested = { sorted[k] : k \in 1..Min(10, Len(sorted)) }

\* The magnitudes _magnitude_to_size has been applied to and returned for.
SizedMagnitudes ==
    { stars[sorted[k]].magnitude : k \in 1..(drawI - 1) }

\* C4: _magnitude_to_size is strictly decreasing in magnitude and never
\* above the maximum size.
C4_SizeStrictlyDecreasingAndCapped ==
    \A m1 \in SizedMagnitudes, m2 \in SizedMagnitudes :
        /\ QLe(MagnitudeToSize(m1), MaxSize)
        /\ (m1 < m2 => QLt(MagnitudeToSize(m2), MagnitudeToSize(m1)))

\* C5: a star the ephemeris fails for is left out and the pass goes on: the
\* run is never ended by it.
C5_FailingStarIsSkipped ==
    \A n \in 1..Len(ephemLog) :
        ~ephemLog[n].ok =>
            /\ pc # "sky_raised"
            /\ ~InRefs(skyStars[n], visible)

\* The catalog as _load_catalog builds it from rows 1..n.
RECURSIVE CatalogAsLoaded(_)
CatalogAsLoaded(n) ==
    IF n = 0 THEN <<>>
    ELSE IF csv[n].mag # BadFloat /\ csv[n].mag <= bright_star_threshold
         THEN DictPut(CatalogAsLoaded(n - 1), StarOfRow(csv[n]))
         ELSE CatalogAsLoaded(n - 1)

\* C6 as stated: once loaded, the catalog's mapping and Star records never
\* change.
C6_CatalogNeverChanges ==
    stars = CatalogAsLoaded(rowI - 1)

\* C6 amended: the mapping and every field other than x and y never change;
\* x and y change only on the records calculate_positions includes.
C6_OnlyXYOfIncludedChange ==
    LET loaded == CatalogAsLoaded(rowI - 1)
    IN  /\ Len(stars) = Len(loaded)
        /\ \A i \in 1..Len(stars) :
             /\ [stars[i] EXCEPT !.x = 0, !.y = 0] = loaded[i]
             /\ (stars[i].x # 0 \/ stars[i].y # 0) => InRefs(i, visible)

\* A finished run, queried afterwards, in which calculate_positions wrote
\* onto a catalog record.
C6_Witness ==
    /\ pc = "done"
    /\ query # <<>>
    /\ \E i \in 1..Len(stars) : stars[i].x # 0 /\ stars[i].y # 0

\* How many stars the star loop of create_disc_template has recorded.
Recorded == IF pc = "draw_raised" THEN drawI ELSE drawI - 1

DiscPoint(star) == <<DiscX(star), DiscY(star)>>

\* C7 as stated: every star of the loaded catalog gets a disc position
\* computed and recorded.
C7_EveryCatalogStarProjected ==
    StarsDrawn =>
        \A i \in 1..Len(stars) :
            /\ stars[i].hip \in DOMAIN positions
            /\ positions[stars[i].hip] = DiscPoint(stars[i])

\* C7 amended: disc positions are computed for the stars of the list
\* calculate_positions returned and for no other star.
C7_OnlyReturnedStarsProjected ==
    /\ \A k \in 1..Len(sorted) : InRefs(sorted[k], visible)
    /\ Recorded <= Len(sorted)
    /\ \A h \in DOMAIN positions :
         \E k \in 1..Recorded :
            stars[sorted[k]].hip = h /\ positions[h] = DiscPoint(stars[sorted[k]])
    /\ \A k \in 1..Recorded : stars[sorted[k]].hip \in DOMAIN positions
    /\ StarsDrawn => Recorded = Len(visible)

\* A finished run with a recorded star and a catalog star that was excluded
\* and has no entry in the position table.
C7_Witness ==
    /\ pc = "done"
    /\ visible # <<>>
    /\ \E i \in 1..Len(stars) : ~InRefs(i, visible) /\ stars[i].hip \notin DOMAIN positions

\* The name the claim gives a row: the proper name when there is one.
ClaimedName(row) ==
    IF row.proper # "" THEN row.proper
    ELSE IF row.hip # Empty THEN "HIP " \o Fmt(row.hip)
    ELSE "HD " \o Fmt(row.hd)

\* C8: the star a row was loaded into is named by the row's proper name
\* whenever that is non-empty, and by the HIP or HD designation otherwise.
C8_ProperNameWins ==
    \A k \in 1..(rowI - 1) :
        (/\ csv[k].mag # BadFloat
         /\ csv[k].mag <= bright_star_threshold
         /\ \A j \in (k + 1)..(rowI - 1) : csv[j].id # csv[k].id)
        => \E i \in 1..Len(stars) :
              stars[i].id = csv[k].id /\ stars[i].name = ClaimedName(csv[k])

\* A filled marker at (x, y) is on the canvas.
HasMarker(x, y) ==
    \E i \in 1..Len(canvas) :
        canvas[i].op = "circle" /\ canvas[i].fill = 1 /\ canvas[i].x = x /\ canvas[i].y = y

\* A label for this star is on the canvas.
HasLabel(star) ==
    \E i \in 1..Len(canvas) :
        /\ canvas[i].op = "drawString"
        /\ canvas[i].text = star.name
        /\ canvas[i].x = QInt(DiscX(star) - Len(star.name) * 2)

\* The star's hip is recorded against its disc point (when no other input
\* star carries the same hip), and the star has a marker, at that point, iff
\* the point is within bounds; out of bounds it has no marker and no label.
StarRecordedAndMarkedIffInBounds(star) ==
    /\ star.hip \in DOMAIN positions
    /\ (\A r \in Range(sorted) : stars[r].hip = star.hip => stars[r] = star)
          => positions[star.hip] = DiscPoint(star)
    /\ HasMarker(DiscX(star), DiscY(star)) <=> InBounds(DiscX(star), DiscY(star))
    /\ ~InBounds(DiscX(star), DiscY(star)) => ~HasLabel(star)

\* C9: when create_disc_template ends, every input star has its hip recorded
\* against its disc point whether or not the point is within bounds, and has
\* a filled marker, at exactly that point, iff the point is within bounds; an
\* out-of-bounds star has no marker and no label.
C9_RecordedAlwaysMarkedIffInBounds ==
    pc \in {"lines", "done", "draw_raised"} =>
        \A r \in Range(sorted) : StarRecordedAndMarkedIffInBounds(stars[r])

\* The same property over the runs whose star loop ran to its end (no input
\* star of magnitude -2.0, for which _magnitude_to_size raises): it holds.
C9_HoldsWhenNoSizeRaises ==
    StarsDrawn => \A r \in Range(sorted) : StarRecordedAndMarkedIffInBounds(stars[r])

\* The position table the star loop builds from sorted_stars[1..n].
RECURSIVE TableOf(_)
TableOf(n) ==
    IF n = 0 THEN <<>>
    ELSE PutPosition(TableOf(n - 1), stars[sorted[n]].hip,
                     DiscX(stars[sorted[n]]), DiscY(stars[sorted[n]]))

IsMarker(op) == op.op = "circle" /\ op.fill = 1

\* C10: edge resolution begins only after every input star is recorded and
\* works on the finished table; outline, centre hole and alignment mark come
\* before every marker, every marker before every edge line, and the save
\* after the last constellation.
C10_RenderOrder ==
    LET edgeStart == EdgeStart
    IN
    /\ edgeStart # 0 => StarsDrawn
    /\ StarsDrawn =>
          /\ drawI = Len(sorted) + 1
          /\ positions = TableOf(Len(sorted))
          /\ edgeStart # 0
    /\ \A i \in 1..Len(canvas) :
          IsMarker(canvas[i]) =>
             /\ edgeStart # 0 => i < edgeStart
             /\ \E a \in 1..(i - 1) :
                   canvas[a] = OpCircle(center_x, center_y, QInt(radius), 1, 0)
             /\ \E b \in 1..(i - 1) :
                   canvas[b] = OpCircle(center_x, center_y,
                                        Q(center_hole.n, center_hole.d * 2), 1, 0)
             /\ \E c \in 1..(i - 1) :
                   canvas[c] = OpString(QSub(QInt(center_x), Q(inch, 10)),
                                        QSub(QInt(center_y + radius), Q(2 * inch, 10)), "N")
    /\ saved => pc = "done" /\ conI = Len(MAJOR_CONSTELLATIONS) + 1

\* A saved canvas with a marker and an edge line on it.
C10_Witness ==
    /\ saved
    /\ \E i \in 1..Len(canvas) : IsMarker(canvas[i])
    /\ Len(EdgeOps) > 0
====
